---- MODULE Spec2Model ----
(***************************************************************************)
(* A model of the binary toolkit: the fixed-width unsigned-integer codec   *)
(* (uint.ts), the BigInt codec (big.ts) and the byte utilities with the    *)
(* DynamicBuffer (bytes.ts).                                               *)
(*                                                                         *)
(* TLC's integers are 32-bit, and the codec handles values up to 2^64 and  *)
(* beyond, so a JavaScript integer (number or BigInt) is modelled as a     *)
(* sign and the set of positions of the one-bits of its magnitude:         *)
(*    [neg |-> FALSE, mag |-> {0, 8}]  is 257.                             *)
(* A 32-bit operand of a bitwise operator (the result of ToInt32) is the   *)
(* set of one-bits of its two's complement pattern, a subset of 0..31.     *)
(* A byte of a Uint8Array is a TLC integer in 0..255; a Uint8Array is a    *)
(* sequence of bytes (index i of the source is index i + 1 here).          *)
(***************************************************************************)
EXTENDS Integers, Sequences, FiniteSets

VARIABLES
    target,     \* the Uint8Array the codec calls are made on
    put,        \* the last putUint<w> call: arguments, target before, error
    get,        \* the last uint<w> call since that put: arguments, result
    nputs,      \* number of putUint<w> calls made on target
    enc,        \* the last bigIntBytes call: argument and result
    dec,        \* the last bigIntFromBytes call: argument, result, error
    buf_value,  \* DynamicBuffer.value, the backing store
    capacity,   \* DynamicBuffer.capacity
    length,     \* DynamicBuffer.length
    rd,         \* the last readInto call: target before and after, error
    snap,       \* the array the last bytes() call returned
    store,      \* which Uint8Array DynamicBuffer.value refers to (allocations so far)
    written,    \* the bytes appended since the buffer's creation or last clear
    last,       \* the last DynamicBuffer call: its name and the buffer before it
    cleared,    \* the capacity held at the most recent clear, -1 before any
    util        \* the last compareBytes or concatenateBytes call

uintVars == <<target, put, get, nputs>>
bigVars  == <<enc, dec>>
bufVars  == <<buf_value, capacity, length, rd, snap, store, written, last, cleared>>
vars     == <<target, put, get, nputs, enc, dec, buf_value, capacity, length, rd, snap,
             store, written, last, cleared, util>>

----------------------------------------------------------------------------
(* Bounds of the model.                                                    *)

\* longest target array
MaxLen == 9
\* number of putUint<w> calls made on one target
MaxPuts == 1
\* bigIntBytes arguments reach 2^(8 * MaxBigBytes)
MaxBigBytes == 3
\* longest array passed to bigIntFromBytes
MaxBytesLen == 3
\* most bytes written to a DynamicBuffer
MaxBufLen == 3
\* most zero bytes put in front of an array passed to bigIntFromBytes
MaxZeros == 2
\* largest capacity a DynamicBuffer is created with
MaxCapacity == 2

----------------------------------------------------------------------------
(* JavaScript integers as sign and bit set.                                *)

\* the integer with the given sign and magnitude bits; zero has no sign
Num(neg, mag) == [neg |-> neg /\ mag # {}, mag |-> mag]

Zero == Num(FALSE, {})

\* the bits of a byte (BigInt(byte), or the byte as an operand)
ByteBits(b) == {j \in 0..7 : (b \div (2 ^ j)) % 2 = 1}

\* the byte whose bits are the low 8 bits of a bit set
BitsByte(S) ==
    LET bit(j, weight) == IF j \in S THEN weight ELSE 0
    IN bit(0, 1) + bit(1, 2) + bit(2, 4) + bit(3, 8)
       + bit(4, 16) + bit(5, 32) + bit(6, 64) + bit(7, 128)

\* magnitude comparison, S < T: the highest bit they differ in is a bit of T
MagLess(S, T) == \E x \in T \ S : \A y \in S \ T : y < x

\* a < b on integers
Less(a, b) ==
    IF a.neg /\ ~b.neg THEN TRUE
    ELSE IF ~a.neg /\ b.neg THEN FALSE
    ELSE IF a.neg THEN MagLess(b.mag, a.mag)
    ELSE MagLess(a.mag, b.mag)

\* 2^n - 1
Ones(n) == Num(FALSE, 0..(n - 1))

\* x << k and x >> k on magnitudes (BigInt shifts of a non-negative value)
Shl(S, k) == {i + k : i \in S}
Shr(S, k) == {i - k : i \in {x \in S : x >= k}}

\* S + 1 on a bit set
Increment(S) ==
    LET k == CHOOSE x \in 0..(Cardinality(S)) : x \notin S /\ \A y \in 0..(x - 1) : y \in S
    IN (S \ (0..(k - 1))) \cup {k}

\* ToInt32: the 32-bit two's complement pattern of an integer
ToInt32(x) ==
    IF x.neg THEN Increment((0..31) \ x.mag) \cap (0..31)
    ELSE x.mag \cap (0..31)

\* the number a 32-bit pattern stands for (bit 31 is the sign)
Int32Value(P) ==
    IF 31 \in P THEN Num(TRUE, Increment((0..31) \ P) \cap (0..32))
    ELSE Num(FALSE, P)

\* p << k on 32-bit patterns
Shl32(P, k) == Shl(P, k) \cap (0..31)

\* p >> k on 32-bit patterns (sign-propagating)
Sar32(P, k) == Shr(P, k) \cup (IF 31 \in P THEN (32 - k)..31 ELSE {})

\* the byte a Uint8Array element holds after  a[i] = x  (x modulo 256)
StoreByte(x) == BitsByte(ToInt32(x) \cap (0..7))

----------------------------------------------------------------------------
(* Results of calls.                                                       *)

Threw(kind, t) == [err |-> kind, val |-> Zero, target |-> t]
Returned(v)    == [err |-> "none", val |-> v, target |-> <<>>]
Wrote(t)       == [err |-> "none", val |-> Zero, target |-> t]

\* t after  t[offset + i] = byte[i]  for i = 0..n-1
StoreAt(t, offset, n, byte) ==
    [j \in 1..Len(t) |->
        IF j - 1 \in offset..(offset + n - 1) THEN byte[j - 1 - offset] ELSE t[j]]

----------------------------------------------------------------------------
(* uint.ts, class BigEndian.                                               *)

BigEndian_uint8(data, offset) ==
    IF Len(data) < offset + 1 THEN Threw("TypeError", data)
    ELSE Returned(Num(FALSE, ByteBits(data[offset + 1])))

BigEndian_uint16(data, offset) ==
    IF Len(data) < offset + 2 THEN Threw("TypeError", data)
    ELSE Returned(Int32Value(
            Shl32(ByteBits(data[offset + 1]), 8) \cup ByteBits(data[offset + 2])))

\* result |= data[offset + i] << (24 - i * 8), for i = 0..3, on 32-bit operands:
\* the bitwise or of the four shifted bytes
BigEndian_uint32(data, offset) ==
    IF Len(data) < offset + 4 THEN Threw("TypeError", data)
    ELSE LET result == UNION {Shl32(ByteBits(data[offset + i + 1]), 24 - i * 8) : i \in 0..3}
         IN Returned(Int32Value(result))

\* result |= BigInt(data[offset + i]) << BigInt(56 - i * 8), for i = 0..7
BigEndian_uint64(data, offset) ==
    IF Len(data) < offset + 8 THEN Threw("TypeError", data)
    ELSE LET result == UNION {Shl(ByteBits(data[offset + i + 1]), 56 - i * 8) : i \in 0..7}
         IN Returned(Num(FALSE, result))

BigEndian_putUint8(t, value, offset) ==
    IF Len(t) < offset + 1 THEN Threw("TypeError", t)
    ELSE IF Less(value, Zero) \/ Less(Ones(8), value) THEN Threw("TypeError", t)
    ELSE LET byte == [i \in 0..0 |-> StoreByte(value)]
         IN Wrote(StoreAt(t, offset, 1, byte))

BigEndian_putUint16(t, value, offset) ==
    IF Len(t) < offset + 2 THEN Threw("TypeError", t)
    ELSE IF Less(value, Zero) \/ Less(Ones(16), value) THEN Threw("TypeError", t)
    ELSE LET byte == [i \in 0..1 |->
                        IF i = 0 THEN StoreByte(Int32Value(Sar32(ToInt32(value), 8)))
                        ELSE StoreByte(Int32Value(ToInt32(value) \cap (0..7)))]
         IN Wrote(StoreAt(t, offset, 2, byte))

\* putUint32 without the upper range check
BigEndian_putUint32_NoUpperBound(t, value, offset) ==
    IF Len(t) < offset + 4 THEN Threw("TypeError", t)
    ELSE IF Less(value, Zero) THEN Threw("TypeError", t)
    ELSE LET byte == [i \in 0..3 |->
                 StoreByte(Int32Value(Sar32(ToInt32(value), (3 - i) * 8) \cap (0..7)))]
         IN Wrote(StoreAt(t, offset, 4, byte))

BigEndian_putUint32(t, value, offset) ==
    IF Len(t) < offset + 4 THEN Threw("TypeError", t)
    ELSE IF Less(value, Zero) \/ Less(Ones(32), value) THEN Threw("TypeError", t)
    ELSE LET byte == [i \in 0..3 |->
                 StoreByte(Int32Value(Sar32(ToInt32(value), (3 - i) * 8) \cap (0..7)))]
         IN Wrote(StoreAt(t, offset, 4, byte))

\* putUint64 storing the low byte first
BigEndian_putUint64_LowFirst(t, value, offset) ==
    IF Len(t) < offset + 8 THEN Threw("TypeError", t)
    ELSE IF Less(value, Zero) \/ Less(Ones(64), value) THEN Threw("TypeError", t)
    ELSE LET byte == [i \in 0..7 |-> BitsByte(Shr(value.mag, i * 8) \cap (0..7))]
         IN Wrote(StoreAt(t, offset, 8, byte))

BigEndian_putUint64(t, value, offset) ==
    IF Len(t) < offset + 8 THEN Threw("TypeError", t)
    ELSE IF Less(value, Zero) \/ Less(Ones(64), value) THEN Threw("TypeError", t)
    ELSE LET byte == [i \in 0..7 |-> BitsByte(Shr(value.mag, (7 - i) * 8) \cap (0..7))]
         IN Wrote(StoreAt(t, offset, 8, byte))

----------------------------------------------------------------------------
(* uint.ts, class LittleEndian.                                            *)

LittleEndian_uint8(data, offset) ==
    IF Len(data) < offset + 1 THEN Threw("TypeError", data)
    ELSE Returned(Num(FALSE, ByteBits(data[offset + 1])))

\* uint16 with the length check  data.byteLength <= offset + 2
LittleEndian_uint16_OffByOne(data, offset) ==
    IF Len(data) <= offset + 2 THEN Threw("TypeError", data)
    ELSE Returned(Int32Value(
            ByteBits(data[offset + 1]) \cup Shl32(ByteBits(data[offset + 2]), 8)))

LittleEndian_uint16(data, offset) ==
    IF Len(data) < offset + 2 THEN Threw("TypeError", data)
    ELSE Returned(Int32Value(
            ByteBits(data[offset + 1]) \cup Shl32(ByteBits(data[offset + 2]), 8)))

\* result |= data[offset + i] << (i * 8), for i = 0..3, on 32-bit operands
LittleEndian_uint32(data, offset) ==
    IF Len(data) < offset + 4 THEN Threw("TypeError", data)
    ELSE LET result == UNION {Shl32(ByteBits(data[offset + i + 1]), i * 8) : i \in 0..3}
         IN Returned(Int32Value(result))

\* result |= BigInt(data[offset + i]) << BigInt(i * 8), for i = 0..7
LittleEndian_uint64(data, offset) ==
    IF Len(data) < offset + 8 THEN Threw("TypeError", data)
    ELSE LET result == UNION {Shl(ByteBits(data[offset + i + 1]), i * 8) : i \in 0..7}
         IN Returned(Num(FALSE, result))

LittleEndian_putUint8(t, value, offset) ==
    IF Len(t) < 1 + offset THEN Threw("TypeError", t)
    ELSE IF Less(value, Zero) \/ Less(Ones(8), value) THEN Threw("TypeError", t)
    ELSE LET byte == [i \in 0..0 |-> StoreByte(value)]
         IN Wrote(StoreAt(t, offset, 1, byte))

\* putUint16 storing the high byte first
LittleEndian_putUint16_HighFirst(t, value, offset) ==
    IF Len(t) < 2 + offset THEN Threw("TypeError", t)
    ELSE IF Less(value, Zero) \/ Less(Ones(16), value) THEN Threw("TypeError", t)
    ELSE LET byte == [i \in 0..1 |->
                        IF i = 0 THEN StoreByte(Int32Value(Sar32(ToInt32(value), 8)))
                        ELSE StoreByte(Int32Value(ToInt32(value) \cap (0..7)))]
         IN Wrote(StoreAt(t, offset, 2, byte))

LittleEndian_putUint16(t, value, offset) ==
    IF Len(t) < 2 + offset THEN Threw("TypeError", t)
    ELSE IF Less(value, Zero) \/ Less(Ones(16), value) THEN Threw("TypeError", t)
    ELSE LET byte == [i \in 0..1 |->
                        IF i = 0 THEN StoreByte(Int32Value(ToInt32(value) \cap (0..7)))
                        ELSE StoreByte(Int32Value(Sar32(ToInt32(value), 8)))]
         IN Wrote(StoreAt(t, offset, 2, byte))

LittleEndian_putUint32(t, value, offset) ==
    IF Len(t) < 4 + offset THEN Threw("TypeError", t)
    ELSE IF Less(value, Zero) \/ Less(Ones(32), value) THEN Threw("TypeError", t)
    ELSE LET byte == [i \in 0..3 |->
                 StoreByte(Int32Value(Sar32(ToInt32(value), i * 8) \cap (0..7)))]
         IN Wrote(StoreAt(t, offset, 4, byte))

LittleEndian_putUint64(t, value, offset) ==
    IF Len(t) < 8 + offset THEN Threw("TypeError", t)
    ELSE IF Less(value, Zero) \/ Less(Ones(64), value) THEN Threw("TypeError", t)
    ELSE LET byte == [i \in 0..7 |-> BitsByte(Shr(value.mag, i * 8) \cap (0..7))]
         IN Wrote(StoreAt(t, offset, 8, byte))

----------------------------------------------------------------------------
(* The two ByteOrder instances and the calls made through the interface.   *)

ByteOrders == {"bigEndian", "littleEndian"}
Widths == {8, 16, 32, 64}

\* order.uint<w>(data, offset)
uint(order, w, data, offset) ==
    IF order = "bigEndian"
    THEN CASE w = 8  -> BigEndian_uint8(data, offset)
           [] w = 16 -> BigEndian_uint16(data, offset)
           [] w = 32 -> BigEndian_uint32(data, offset)
           [] w = 64 -> BigEndian_uint64(data, offset)
    ELSE CASE w = 8  -> LittleEndian_uint8(data, offset)
           [] w = 16 -> LittleEndian_uint16(data, offset)
           [] w = 32 -> LittleEndian_uint32(data, offset)
           [] w = 64 -> LittleEndian_uint64(data, offset)

\* order.putUint<w>(target, value, offset)
putUint(order, w, t, value, offset) ==
    IF order = "bigEndian"
    THEN CASE w = 8  -> BigEndian_putUint8(t, value, offset)
           [] w = 16 -> BigEndian_putUint16(t, value, offset)
           [] w = 32 -> BigEndian_putUint32(t, value, offset)
           [] w = 64 -> BigEndian_putUint64(t, value, offset)
    ELSE CASE w = 8  -> LittleEndian_putUint8(t, value, offset)
           [] w = 16 -> LittleEndian_putUint16(t, value, offset)
           [] w = 32 -> LittleEndian_putUint32(t, value, offset)
           [] w = 64 -> LittleEndian_putUint64(t, value, offset)

----------------------------------------------------------------------------
(* big.ts.                                                                 *)

\* a + b on magnitudes: the sum without carries plus the carries, until no
\* carry is left
RECURSIVE AddMag(_, _)
AddMag(S, T) ==
    IF T = {} THEN S
    ELSE AddMag((S \ T) \cup (T \ S), Shl(S \cap T, 1))

\* while (value > 2n ** BigInt(byteLength * 8) - 1n) byteLength++
RECURSIVE ByteLengthFrom(_, _)
ByteLengthFrom(v, byteLength) ==
    IF Less(Ones(byteLength * 8), v) THEN ByteLengthFrom(v, byteLength + 1)
    ELSE byteLength

\* bigIntBytes with the loop condition  value >= 2n ** BigInt(byteLength * 8) - 1n
bigIntBytes_GreaterEqual(x) ==
    LET v          == IF Less(x, Zero) THEN Num(~x.neg, x.mag) ELSE x
        byteLength == ByteLengthFrom(Num(FALSE, Increment(v.mag)), 1)
    IN [j \in 1..byteLength |->
          BitsByte(Shr(v.mag, (byteLength - (j - 1) - 1) * 8) \cap (0..7))]

bigIntBytes(x) ==
    LET v          == IF Less(x, Zero) THEN Num(~x.neg, x.mag) ELSE x
        byteLength == ByteLengthFrom(v, 1)
    IN [j \in 1..byteLength |->
          BitsByte(Shr(v.mag, (byteLength - (j - 1) - 1) * 8) \cap (0..7))]

\* decoded after the first i rounds of
\*   decoded += BigInt(bytes[i]) << BigInt((bytes.byteLength - 1 - i) * 8)
RECURSIVE DecodedAfter(_, _)
DecodedAfter(bytes, i) ==
    IF i = 0 THEN {}
    ELSE AddMag(DecodedAfter(bytes, i - 1),
                Shl(ByteBits(bytes[i]), (Len(bytes) - 1 - (i - 1)) * 8))

\* bigIntFromBytes shifting byte i by (bytes.byteLength - i) * 8
bigIntFromBytes_ShiftOff(bytes) ==
    IF Len(bytes) < 1 THEN Threw("TypeError", bytes)
    ELSE Returned(Num(FALSE, Shl(DecodedAfter(bytes, Len(bytes)), 8)))

\* bigIntFromBytes without the check for an empty array
bigIntFromBytes_NoCheck(bytes) ==
    Returned(Num(FALSE, DecodedAfter(bytes, Len(bytes))))

\* bigIntFromBytes reading the bytes least significant first
bigIntFromBytes_LittleEndian(bytes) ==
    IF Len(bytes) < 1 THEN Threw("TypeError", bytes)
    ELSE Returned(Num(FALSE,
            UNION {Shl(ByteBits(bytes[i]), (i - 1) * 8) : i \in 1..Len(bytes)}))

bigIntFromBytes(bytes) ==
    IF Len(bytes) < 1 THEN Threw("TypeError", bytes)
    ELSE Returned(Num(FALSE, DecodedAfter(bytes, Len(bytes))))

----------------------------------------------------------------------------
(* bytes.ts: compareBytes, concatenateBytes and class DynamicBuffer.       *)

\* compareBytes without the comparison of the lengths: a[i] is undefined past
\* the end of a and differs from every byte
compareBytes_NoLengthCheck(a, b) ==
    ~(\E i \in 1..Len(b) : i > Len(a) \/ a[i] # b[i])

\* compareBytes(a, b): the lengths are compared first, then the bytes
compareBytes(a, b) ==
    IF Len(a) # Len(b) THEN FALSE
    ELSE ~(\E i \in 1..Len(b) : a[i] # b[i])

\* TypedArray.prototype.set: a copy of array holding source from index offset
\* on (the built-in throws a RangeError when source does not fit)
SetAt(array, source, offset) ==
    IF offset + Len(source) > Len(array) THEN Threw("RangeError", array)
    ELSE Wrote([j \in 1..Len(array) |->
                  IF j - 1 \in offset..(offset + Len(source) - 1)
                  THEN source[j - offset] ELSE array[j]])

\* concatenateBytes setting b at index 0
concatenateBytes_Overlap(a, b) ==
    LET result == [j \in 1..(Len(a) + Len(b)) |-> 0]
        withA  == SetAt(result, a, 0).target
    IN [result |-> SetAt(withA, b, 0).target, a |-> a, b |-> b]

\* concatenateBytes(a, b): the array returned, and a and b after the call
concatenateBytes(a, b) ==
    LET result == [j \in 1..(Len(a) + Len(b)) |-> 0]
        withA  == SetAt(result, a, 0).target
    IN [result |-> SetAt(withA, b, Len(a)).target, a |-> a, b |-> b]

\* growing to the size needed instead of doubling
GrownCapacity_Exact(cap, needed) == IF needed > cap THEN needed ELSE cap

\* the doubling loop of write: capacity once length + bytes.byteLength fits
RECURSIVE GrownCapacity(_, _)
GrownCapacity(cap, needed) ==
    IF needed > cap
    THEN GrownCapacity(IF cap = 0 THEN 1 ELSE cap * 2, needed)
    ELSE cap

\* the fields of the buffer; store tells which Uint8Array value refers to
this == [value |-> buf_value, capacity |-> capacity, length |-> length, store |-> store]

\* a constructor allocating no bytes
DynamicBuffer_constructor_EmptyStore(c) ==
    /\ buf_value = <<>>
    /\ capacity = c
    /\ length = 0
    /\ store = 0

\* new DynamicBuffer(c)
DynamicBuffer_constructor(c) ==
    /\ buf_value = [j \in 1..c |-> 0]
    /\ capacity = c
    /\ length = 0
    /\ store = 0

\* the buffer after write(bytes) on the buffer s
DynamicBuffer_write_outcome(s, bytes) ==
    IF s.length + Len(bytes) <= s.capacity
    THEN LET r == SetAt(s.value, bytes, s.length)
         IN IF r.err # "none"
            THEN s   \* this.value.set threw: the call ends before length changes
            ELSE [s EXCEPT !.value = r.target, !.length = s.length + Len(bytes)]
    ELSE LET cap      == GrownCapacity(s.capacity, s.length + Len(bytes))
             newValue == [j \in 1..cap |-> 0]
             copied   == SetAt(newValue, SubSeq(s.value, 1, s.length), 0).target
         IN [value    |-> SetAt(copied, bytes, s.length).target,
             capacity |-> cap,
             length   |-> s.length + Len(bytes),
             store    |-> s.store + 1]

\* writeByte growing by one byte instead of doubling
DynamicBuffer_writeByte_outcome_GrowByOne(s, byte) ==
    IF s.length + 1 <= s.capacity
    THEN [s EXCEPT !.value = [j \in 1..Len(s.value) |->
                                IF j = s.length + 1 THEN byte % 256 ELSE s.value[j]],
                   !.length = s.length + 1]
    ELSE LET cap      == s.capacity + 1
             newValue == [j \in 1..cap |-> 0]
             copied   == SetAt(newValue, SubSeq(s.value, 1, s.length), 0).target
         IN [value    |-> [j \in 1..cap |->
                             IF j = s.length + 1 THEN byte % 256 ELSE copied[j]],
             capacity |-> cap,
             length   |-> s.length + 1,
             store    |-> s.store + 1]

\* the buffer after writeByte(byte) on the buffer s; an element store keeps
\* the byte modulo 256 and does nothing past the end of the array
DynamicBuffer_writeByte_outcome(s, byte) ==
    IF s.length + 1 <= s.capacity
    THEN [s EXCEPT !.value = [j \in 1..Len(s.value) |->
                                IF j = s.length + 1 THEN byte % 256 ELSE s.value[j]],
                   !.length = s.length + 1]
    ELSE LET cap      == IF s.capacity = 0 THEN 1 ELSE s.capacity * 2
             newValue == [j \in 1..cap |-> 0]
             copied   == SetAt(newValue, SubSeq(s.value, 1, s.length), 0).target
         IN [value    |-> [j \in 1..cap |->
                             IF j = s.length + 1 THEN byte % 256 ELSE copied[j]],
             capacity |-> cap,
             length   |-> s.length + 1,
             store    |-> s.store + 1]

\* readInto throwing a RangeError
DynamicBuffer_readInto_outcome_RangeError(t) ==
    IF Len(t) < length THEN Threw("RangeError", t)
    ELSE SetAt(t, SubSeq(buf_value, 1, length), 0)

\* readInto copying the whole of value
DynamicBuffer_readInto_outcome_WholeStore(t) ==
    IF Len(t) < length THEN Threw("TypeError", t)
    ELSE SetAt(t, buf_value, 0)

\* the outcome of readInto(t): the error thrown, and t after the call
DynamicBuffer_readInto_outcome(t) ==
    IF Len(t) < length THEN Threw("TypeError", t)
    ELSE SetAt(t, SubSeq(buf_value, 1, length), 0)

\* bytes() returning value.slice(0), the whole of value
DynamicBuffer_bytes_outcome_WholeStore(s) ==
    [result |-> s.value, shared |-> FALSE]

\* bytes() returning value.subarray(0, length), a view of value
DynamicBuffer_bytes_outcome_Subarray(s) ==
    [result |-> SubSeq(s.value, 1, s.length), shared |-> TRUE]

\* the array bytes() returns on the buffer s: slice copies the bytes into an
\* array of its own, which shares nothing with s.value
DynamicBuffer_bytes_outcome(s) ==
    [result |-> SubSeq(s.value, 1, s.length), shared |-> FALSE]

\* What the holder of the array returned by bytes() has after a call left the
\* buffer as s: an array sharing the store that value refers to shows the
\* bytes stored there; once value refers to another store nothing is shared.
SnapAfter(s) ==
    IF ~snap.shared THEN snap
    ELSE IF s.store # store THEN [snap EXCEPT !.shared = FALSE]
    ELSE [snap EXCEPT !.result = SubSeq(s.value, 1, Len(snap.result))]

NoRead == [called |-> FALSE, before |-> <<>>, after |-> <<>>, err |-> "none"]

\* the record of a call named op with an argument of n bytes: capacity,
\* length and store are the buffer's before the call
Call(op, n) ==
    [op |-> op, n |-> n, capacity |-> capacity, length |-> length, store |-> store]

\* a call named op with an argument of n bytes leaves the buffer as s; rd
\* keeps a readInto call only until the next call
Becomes(op, n, s) ==
    /\ buf_value' = s.value
    /\ capacity' = s.capacity
    /\ length' = s.length
    /\ store' = s.store
    /\ snap' = SnapAfter(s)
    /\ last' = Call(op, n)
    /\ rd' = NoRead

\* write(bytes)
DynamicBuffer_write(bytes) ==
    /\ length + Len(bytes) <= MaxBufLen
    /\ Becomes("write", Len(bytes), DynamicBuffer_write_outcome(this, bytes))
    /\ written' = written \o bytes
    /\ UNCHANGED <<cleared, util, uintVars, bigVars>>

\* writeByte(byte)
DynamicBuffer_writeByte(byte) ==
    /\ length + 1 <= MaxBufLen
    /\ Becomes("writeByte", 1, DynamicBuffer_writeByte_outcome(this, byte))
    /\ written' = Append(written, byte)
    /\ UNCHANGED <<cleared, util, uintVars, bigVars>>

\* readInto(target), with t for the target
DynamicBuffer_readInto(t) ==
    /\ LET r == DynamicBuffer_readInto_outcome(t)
       IN rd' = [called |-> TRUE, before |-> t, after |-> r.target, err |-> r.err]
    /\ last' = Call("readInto", Len(t))
    /\ UNCHANGED <<buf_value, capacity, length, store, snap, written, cleared, util,
                   uintVars, bigVars>>

\* bytes(); taken keeps what the call returned, and at the store that value
\* referred to
DynamicBuffer_bytes ==
    /\ LET r == DynamicBuffer_bytes_outcome(this)
       IN snap' = [called |-> TRUE, result |-> r.result, shared |-> r.shared,
                   taken |-> r.result, at |-> store, mutated |-> FALSE]
    /\ last' = Call("bytes", 0)
    /\ rd' = NoRead
    /\ UNCHANGED <<buf_value, capacity, length, store, written, cleared, util,
                   uintVars, bigVars>>

\* clear() giving the store up
DynamicBuffer_clear_outcome_Release(s) ==
    [value |-> <<>>, capacity |-> 0, length |-> 0, store |-> s.store + 1]

\* the buffer after clear() on the buffer s
DynamicBuffer_clear_outcome(s) == [s EXCEPT !.length = 0]

\* clear()
DynamicBuffer_clear ==
    /\ Becomes("clear", 0, DynamicBuffer_clear_outcome(this))
    /\ written' = <<>>
    /\ cleared' = capacity
    /\ UNCHANGED <<util, uintVars, bigVars>>

\* the caller stores b at index i of the array bytes() returned; the store is
\* seen through every array sharing its bytes
MutateSnapshot(i, b) ==
    /\ snap.called /\ ~snap.mutated /\ i < Len(snap.result)
    /\ snap' = [snap EXCEPT !.result[i + 1] = b, !.mutated = TRUE]
    /\ buf_value' = IF snap.shared THEN [buf_value EXCEPT ![i + 1] = b] ELSE buf_value
    /\ UNCHANGED <<capacity, length, store, rd, written, last, cleared, util,
                   uintVars, bigVars>>

NoSnap == [called |-> FALSE, result |-> <<>>, shared |-> FALSE, taken |-> <<>>,
           at |-> 0, mutated |-> FALSE]
NoCall == [op |-> "none", n |-> 0, capacity |-> 0, length |-> 0, store |-> 0]
NoUtil == [fn |-> "none", a |-> <<>>, b |-> <<>>, equal |-> FALSE, result |-> <<>>,
           a_after |-> <<>>, b_after |-> <<>>]

\* no buffer call has been made on the buffer created
NewBuffer == rd = NoRead /\ snap = NoSnap /\ written = <<>> /\ last = NoCall /\ cleared = -1

\* no buffer call is made: an empty buffer of capacity 0
IdleBuffer == DynamicBuffer_constructor(0) /\ NewBuffer

\* no call of compareBytes or concatenateBytes is made
IdleBytes == util = NoUtil

----------------------------------------------------------------------------
(* Calls of the BigInt codec.                                              *)

NoEnc == [called |-> FALSE, value |-> Zero, bytes |-> <<>>]
NoDec == [called |-> FALSE, bytes |-> <<>>, val |-> Zero, err |-> "none"]

IdleBig == enc = NoEnc /\ dec = NoDec

\* magnitudes of the bigIntBytes arguments: every combination of the end
\* bits of the two low bytes, and 2^(8n) - 1 and 2^(8n) for n up to MaxBigBytes
BigMags ==
    (SUBSET {0, 7, 8, 15})
    \cup {0..(8 * n - 1) : n \in 1..MaxBigBytes}
    \cup {{8 * n} : n \in 1..MaxBigBytes}

BigInputs == {Num(neg, mag) : neg \in BOOLEAN, mag \in BigMags}

\* arrays passed to bigIntFromBytes: up to MaxBytesLen bytes of 0, 1 and 255
RECURSIVE ByteSeqs(_)
ByteSeqs(n) ==
    IF n = 0 THEN {<<>>}
    ELSE LET shorter == ByteSeqs(n - 1)
         IN shorter \cup {Append(b, x) : b \in {q \in shorter : Len(q) = n - 1},
                                         x \in {0, 1, 255}}

ByteInputs == ByteSeqs(MaxBytesLen)

\* a call bigIntBytes(x)
CallBigIntBytes(x) ==
    /\ enc' = [called |-> TRUE, value |-> x, bytes |-> bigIntBytes(x)]
    /\ UNCHANGED <<dec, uintVars, bufVars, util>>

\* a call bigIntFromBytes(b)
CallBigIntFromBytes(b) ==
    /\ LET r == bigIntFromBytes(b)
       IN dec' = [called |-> TRUE, bytes |-> b, val |-> r.val, err |-> r.err]
    /\ UNCHANGED <<enc, uintVars, bufVars, util>>

\* the caller encodes one of the inputs, or the integer last decoded
Encode ==
    \E x \in BigInputs \cup {dec.val} : CallBigIntBytes(x)

\* the caller decodes one of the inputs, or the array last encoded
Decode ==
    \E b \in ByteInputs \cup {enc.bytes} : CallBigIntFromBytes(b)

NextBig == Encode \/ Decode

----------------------------------------------------------------------------
(* The values and arrays the calls are made with.                          *)

\* the integer whose n big-endian bytes are first, first + 1, ...
Pattern(n, first) ==
    Num(FALSE, UNION {Shl(ByteBits(first + i), 8 * (n - 1 - i)) : i \in 0..(n - 1)})

\* values passed to putUint<w>: -1, 0, 0x0102.., 2^w - 1, 2^w
Values(w) ==
    {Num(TRUE, {0}), Zero, Pattern(w \div 8, 1), Ones(w), Num(FALSE, {w})}

Offsets == {0, 1}

\* new Uint8Array(len).fill(byte)
Filled(len, byte) == [j \in 1..len |-> byte]

\* lengths of the arrays: the exact sizes of the four widths, and MaxLen
Lens == {0, 1, 2, 4, 8, MaxLen}

NoPut == [called |-> FALSE, order |-> "bigEndian", width |-> 8, value |-> Zero,
          offset |-> 0, before |-> <<>>, err |-> "none"]
NoGet == [called |-> FALSE, order |-> "bigEndian", width |-> 8,
          offset |-> 0, val |-> Zero, err |-> "none"]

\* the codec is called on a new array, or on the longest array holding 0xAA
InitUint ==
    /\ target \in {Filled(len, 0) : len \in Lens} \cup {Filled(MaxLen, 170)}
    /\ put = NoPut
    /\ get = NoGet
    /\ nputs = 0
    /\ IdleBig
    /\ IdleBuffer
    /\ IdleBytes

\* a call order.putUint<w>(target, value, offset)
CallPut(order, w, value, offset) ==
    /\ nputs < MaxPuts
    /\ LET r == putUint(order, w, target, value, offset)
       IN /\ target' = r.target
          /\ put' = [called |-> TRUE, order |-> order, width |-> w, value |-> value,
                     offset |-> offset, before |-> target, err |-> r.err]
    /\ get' = NoGet
    /\ nputs' = nputs + 1
    /\ UNCHANGED <<bigVars, bufVars, util>>

\* a call order.uint<w>(target, offset)
CallGet(order, w, offset) ==
    /\ LET r == uint(order, w, target, offset)
       IN get' = [called |-> TRUE, order |-> order, width |-> w,
                  offset |-> offset, val |-> r.val, err |-> r.err]
    /\ UNCHANGED <<target, put, nputs, bigVars, bufVars, util>>

putUint8  == \E o \in ByteOrders, v \in Values(8),  k \in Offsets : CallPut(o, 8, v, k)
putUint16 == \E o \in ByteOrders, v \in Values(16), k \in Offsets : CallPut(o, 16, v, k)
putUint32 == \E o \in ByteOrders, v \in Values(32), k \in Offsets : CallPut(o, 32, v, k)
putUint64 == \E o \in ByteOrders, v \in Values(64), k \in Offsets : CallPut(o, 64, v, k)
uint8  == \E o \in ByteOrders, k \in Offsets : CallGet(o, 8, k)
uint16 == \E o \in ByteOrders, k \in Offsets : CallGet(o, 16, k)
uint32 == \E o \in ByteOrders, k \in Offsets : CallGet(o, 32, k)
uint64 == \E o \in ByteOrders, k \in Offsets : CallGet(o, 64, k)

NextUint ==
    \/ putUint8 \/ putUint16 \/ putUint32 \/ putUint64
    \/ uint8 \/ uint16 \/ uint32 \/ uint64

\* The calls that are rejected: the codec on an array of MaxLen bytes with
\* values outside the range at offset 0, and with every value at offset
\* MaxLen, where no width fits; readInto with an array too short for the
\* bytes written.
InitErrors ==
    /\ target = Filled(MaxLen, 0) /\ put = NoPut /\ get = NoGet /\ nputs = 0
    /\ IdleBig
    /\ IdleBuffer
    /\ IdleBytes

RejectedPut ==
    \E o \in ByteOrders, w \in Widths, k \in {0, MaxLen} :
        \E v \in {Num(TRUE, {0}), Num(FALSE, {w})} : CallPut(o, w, v, k)

EdgeGet ==
    \E o \in ByteOrders, w \in Widths, k \in {0, MaxLen} : CallGet(o, w, k)

FillBuffer == DynamicBuffer_writeByte(1)

EdgeReadInto == \E len \in {0, MaxBufLen} : DynamicBuffer_readInto(Filled(len, 0))

NextErrors == RejectedPut \/ EdgeGet \/ FillBuffer \/ EdgeReadInto

SpecErrors == InitErrors /\ [][NextErrors]_vars

IdleUint == target = <<>> /\ put = NoPut /\ get = NoGet /\ nputs = 0

SpecUint == InitUint /\ [][NextUint]_vars

InitBig == IdleUint /\ IdleBig /\ IdleBuffer /\ IdleBytes

SpecBig == InitBig /\ [][NextBig]_vars

----------------------------------------------------------------------------
(* Calls on a DynamicBuffer.                                               *)

\* chunks passed to write: [], [1, 2] and [1, 2, ...] of MaxBufLen bytes
Chunks == {[j \in 1..n |-> j] : n \in {0, 2, MaxBufLen}}

\* bytes passed to writeByte
ByteArgs == {255}

\* arrays passed to readInto: of one byte, of as many bytes as a buffer
\* holds, and of one byte more
ReadTargets == {Filled(len, 170) : len \in {1, MaxBufLen, MaxBufLen + 1}}

\* new DynamicBuffer(c) for the capacities 0 and MaxCapacity
InitBuffer ==
    /\ \E c \in {0, MaxCapacity} : DynamicBuffer_constructor(c)
    /\ NewBuffer
    /\ IdleUint
    /\ IdleBig
    /\ IdleBytes

Write == \E chunk \in Chunks : DynamicBuffer_write(chunk)

WriteByte == \E b \in ByteArgs : DynamicBuffer_writeByte(b)

ReadInto == \E t \in ReadTargets : DynamicBuffer_readInto(t)

Mutate == MutateSnapshot(0, 7)

NextBuffer ==
    \/ Write \/ WriteByte \/ DynamicBuffer_clear
    \/ DynamicBuffer_bytes \/ ReadInto \/ Mutate

SpecBuffer == InitBuffer /\ [][NextBuffer]_vars

\* The calls that change the buffer.  bytes, readInto and a store into a
\* snapshot leave value, capacity and length as they are, so the buffers
\* reached are those of SpecBuffer.
NextWrites == Write \/ WriteByte \/ DynamicBuffer_clear

SpecWrites == InitBuffer /\ [][NextWrites]_vars

----------------------------------------------------------------------------
(* Calls of compareBytes and concatenateBytes.                             *)

\* a call compareBytes(a, b)
CallCompareBytes(a, b) ==
    /\ util' = [NoUtil EXCEPT !.fn = "compareBytes", !.a = a, !.b = b,
                              !.equal = compareBytes(a, b)]
    /\ UNCHANGED <<uintVars, bigVars, bufVars>>

\* a call concatenateBytes(a, b)
CallConcatenateBytes(a, b) ==
    /\ LET r == concatenateBytes(a, b)
       IN util' = [NoUtil EXCEPT !.fn = "concatenateBytes", !.a = a, !.b = b,
                                 !.result = r.result, !.a_after = r.a, !.b_after = r.b]
    /\ UNCHANGED <<uintVars, bigVars, bufVars>>

\* arrays passed to compareBytes and concatenateBytes: up to MaxBytesLen
\* bytes of 1 and 255
ArrayInputs == {b \in ByteInputs : \A i \in 1..Len(b) : b[i] # 0}

Compare == \E a \in ArrayInputs, b \in ArrayInputs : CallCompareBytes(a, b)

Concatenate == \E a \in ArrayInputs, b \in ArrayInputs : CallConcatenateBytes(a, b)

InitBytes == IdleUint /\ IdleBig /\ IdleBuffer /\ IdleBytes

NextBytes == Compare \/ Concatenate

SpecBytes == InitBytes /\ [][NextBytes]_vars

----------------------------------------------------------------------------
(* Properties of the unsigned-integer codec.                               *)

\* v lies in [0, 2^w - 1]
InRange(v, w) == ~Less(v, Zero) /\ ~Less(Ones(w), v)

\* the byte made of bits [lo, lo + 8) of v
BitField(v, lo) == BitsByte({j \in 0..7 : lo + j \in v.mag})

\* the bit position of byte i (from offset) of an n-byte integer in an order
BytePos(order, n, i) == IF order = "bigEndian" THEN 8 * (n - 1 - i) ELSE 8 * i

\* the unsigned integer formed from the n bytes of data at offset: the bytes
\* occupy disjoint bit ranges, so the sum of data[offset+i] * 256^p is the
\* union of their bits moved to 8 * p
UnsignedAt(order, n, data, offset) ==
    Num(FALSE, UNION {{BytePos(order, n, i) + j : j \in ByteBits(data[offset + i + 1])}
                      : i \in 0..(n - 1)})

PutSucceeded == put.called /\ put.err = "none"

\* C1: writing v in [0, 2^w - 1] with putUint<w> into an all-zero target at
\* offset k and then reading with uint<w> of the same byte order at offset k
\* returns exactly v.
C1_RoundTrip ==
    (/\ PutSucceeded /\ get.called
     /\ put.before = Filled(Len(put.before), 0)
     /\ get.order = put.order /\ get.width = put.width /\ get.offset = put.offset)
    => get.err = "none" /\ get.val = put.value

\* C2: uint<w>(data, offset) on data long enough returns the unsigned integer
\* formed from the w/8 bytes at offset in the byte order, a value in
\* [0, 2^w - 1], whatever the bytes outside the span are.
C2_ReadsUnsigned ==
    (get.called /\ Len(target) >= get.offset + get.width \div 8)
    => /\ get.err = "none"
       /\ get.val = UnsignedAt(get.order, get.width \div 8, target, get.offset)
       /\ InRange(get.val, get.width)

\* C3: putUint<w> with a value below 0 or above 2^w - 1 fails, and the target
\* holds after the failed call what it held before.
C3_OutOfRangeRejected ==
    (put.called /\ ~InRange(put.value, put.width))
    => put.err # "none" /\ target = put.before

\* C3 witness: a value above the range was put into a non-zero target with room.
C3_Witness ==
    /\ put.called /\ Less(Ones(put.width), put.value)
    /\ put.width = 32 /\ put.order = "bigEndian"
    /\ Len(put.before) >= put.offset + 4
    /\ put.before = Filled(MaxLen, 170)
    /\ put.err # "none"

\* C4: uint<w> fails exactly when data is shorter than offset + w/8; putUint<w>
\* on a target shorter than offset + w/8 fails whatever the value and leaves
\* the target as it was; a target of offset + w/8 bytes or more takes every
\* value in range.
C4_LengthChecked ==
    /\ get.called =>
         (get.err # "none" <=> Len(target) < get.offset + get.width \div 8)
    /\ (put.called /\ Len(put.before) < put.offset + put.width \div 8) =>
         (put.err # "none" /\ target = put.before)
    /\ (put.called /\ Len(put.before) >= put.offset + put.width \div 8
                   /\ InRange(put.value, put.width)) =>
         put.err = "none"

\* C4 witness: a put into a target of exactly offset + w/8 bytes succeeded and
\* a wider read of the same target at the same offset failed.
C4_Witness ==
    /\ PutSucceeded /\ put.offset = 1 /\ put.width = 8
    /\ Len(put.before) = put.offset + 1
    /\ get.called /\ get.offset = 1 /\ get.width = 16 /\ get.order = "littleEndian"
    /\ get.err # "none"

\* C6: a successful putUint<w> keeps the target's length, stores at
\* offset + i the bits [8*(n-1-i), 8*(n-i)) of the value (big-endian) or the
\* bits [8*i, 8*(i+1)) (little-endian), and leaves every other byte as it was.
C6_WritesSpanOnly ==
    PutSucceeded =>
      LET n == put.width \div 8
      IN /\ Len(target) = Len(put.before)
         /\ \A j \in 1..Len(put.before) :
              IF j - 1 \in put.offset..(put.offset + n - 1)
              THEN target[j] =
                     BitField(put.value, BytePos(put.order, n, j - 1 - put.offset))
              ELSE target[j] = put.before[j]

\* C6 witness: a multi-byte value was put at offset 1 into a longer target
\* that held non-zero bytes.
C6_Witness ==
    /\ PutSucceeded /\ put.width = 32 /\ put.order = "bigEndian" /\ put.offset = 1
    /\ put.before = Filled(MaxLen, 170)
    /\ put.value = Pattern(4, 1)
    /\ target # put.before

\* the other byte order
OtherOrder(order) == IF order = "bigEndian" THEN "littleEndian" ELSE "bigEndian"

\* C7: the w/8 bytes putUint<w> wrote are the reversal of the bytes the other
\* byte order writes for the same value; for w = 8 the two orders write the
\* same byte and read the same value.
C7_OrdersAreReversals ==
    PutSucceeded =>
      LET n     == put.width \div 8
          other == putUint(OtherOrder(put.order), put.width,
                           Filled(n, 0), put.value, 0).target
      IN /\ \A i \in 0..(n - 1) : target[put.offset + i + 1] = other[n - i]
         /\ put.width = 8 =>
              /\ target[put.offset + 1] = other[1]
              /\ uint("bigEndian", 8, target, put.offset)
                   = uint("littleEndian", 8, target, put.offset)

\* C7 witness: a 16-bit value with two different bytes was put little-endian.
C7_Witness ==
    /\ PutSucceeded /\ put.width = 16 /\ put.order = "littleEndian"
    /\ put.value = Pattern(2, 1)
    /\ target[put.offset + 1] # target[put.offset + 2]

----------------------------------------------------------------------------
(* Properties of the BigInt codec.                                         *)

\* b has at least one byte and no leading zero byte, or is the single byte 0
Canonical(b) == Len(b) >= 1 /\ (b[1] # 0 \/ Len(b) = 1)

\* C8: bigIntFromBytes(bigIntBytes(x)) is x for every integer x >= 0, and
\* bigIntBytes(bigIntFromBytes(b)) is b for every array b of at least one
\* byte with no leading zero byte and for the array [0].
C8_RoundTrips ==
    /\ (enc.called /\ dec.called /\ ~enc.value.neg /\ dec.bytes = enc.bytes)
         => (dec.err = "none" /\ dec.val = enc.value)
    /\ (enc.called /\ dec.called /\ dec.err = "none" /\ Canonical(dec.bytes)
          /\ enc.value = dec.val)
         => enc.bytes = dec.bytes

\* C8 witness: a three-byte integer was encoded and its bytes decoded, and the
\* decoded integer encoded again.
C8_Witness ==
    /\ enc.called /\ dec.called /\ dec.err = "none"
    /\ dec.bytes = <<1, 0, 255>>
    /\ enc.value = dec.val
    /\ enc.bytes = dec.bytes

\* the magnitude of an integer
Abs(x) == Num(FALSE, x.mag)

\* C9: bigIntBytes(value) is the minimal big-endian encoding of |value|: its
\* length n is the least n >= 1 with |value| <= 2^(8n) - 1, byte i holds the
\* bits [8*(n-1-i), 8*(n-i)) of |value|, bigIntBytes(0) is one zero byte, the
\* first byte of a non-zero value is non-zero, and -value has the same bytes.
C9_MinimalEncoding ==
    enc.called =>
      LET n == Len(enc.bytes)
          m == Abs(enc.value)
      IN /\ n >= 1
         /\ ~Less(Ones(8 * n), m)
         /\ n > 1 => Less(Ones(8 * (n - 1)), m)
         /\ \A i \in 0..(n - 1) : enc.bytes[i + 1] = BitField(m, 8 * (n - 1 - i))
         /\ enc.value = Zero => enc.bytes = <<0>>
         /\ enc.value # Zero => enc.bytes[1] # 0
         /\ bigIntBytes(Num(~enc.value.neg, enc.value.mag)) = enc.bytes

\* C9 witness: a negative integer of more than one byte was encoded.
C9_Witness ==
    /\ enc.called /\ enc.value = Num(TRUE, {8})
    /\ enc.bytes = <<1, 0>>

\* C10: bigIntFromBytes fails, with a TypeError, exactly when its input has
\* length 0; for every other input it returns a non-negative integer.
C10_EmptyRejected ==
    dec.called =>
      /\ dec.err # "none" <=> Len(dec.bytes) = 0
      /\ dec.err # "none" => dec.err = "TypeError"
      /\ dec.err = "none" => ~dec.val.neg

\* C10 witness: the empty array was decoded and rejected.
C10_Witness == dec.called /\ dec.bytes = <<>> /\ dec.err = "TypeError"

----------------------------------------------------------------------------
(* The kind of the errors.                                                 *)

\* every rejection of the last calls is of the given kind
RejectionsAre(kind) ==
    /\ (put.called /\ put.err # "none") => put.err = kind
    /\ (get.called /\ get.err # "none") => get.err = kind
    /\ (rd.called /\ rd.err # "none") => rd.err = kind

\* C5 as stated: every rejection raised by the unsigned-integer codec
\* (insufficient bytes on read, insufficient space on write, value out of
\* range on write) and by DynamicBuffer.readInto (target shorter than length)
\* is a RangeError.
C5_RejectionsAreRangeErrors == RejectionsAre("RangeError")

\* C5 as amended: every such rejection is a TypeError.
C5_RejectionsAreTypeErrors == RejectionsAre("TypeError")

\* C5 witness: a put with room was rejected for its value, a read for the
\* missing bytes, and a readInto for its short target.
C5_Witness ==
    /\ put.called /\ put.err # "none" /\ Len(put.before) >= put.offset + put.width \div 8
    /\ get.called /\ get.err # "none"
    /\ rd.called /\ rd.err # "none" /\ Len(rd.before) < length

----------------------------------------------------------------------------
(* Properties of the DynamicBuffer.                                        *)

\* the logical content of the buffer, value[0 .. length - 1]
Content == SubSeq(buf_value, 1, length)

\* the last call appended bytes
Appended == last.op \in {"write", "writeByte"}

\* C11: after write and writeByte calls that appended N bytes in total since
\* the buffer's creation or its last clear, length is N, capacity is at least
\* N, and bytes() returns those N bytes in the order written; readInto gives
\* the same bytes, and nothing written before a clear is among them.
C11_HoldsWhatWasWritten ==
    /\ length = Len(written)
    /\ capacity >= Len(written)
    /\ DynamicBuffer_bytes_outcome(this).result = written
    /\ last.op = "bytes" => snap.taken = written
    /\ (last.op = "readInto" /\ rd.err = "none") =>
         SubSeq(rd.after, 1, Len(written)) = written

\* C11 witness: bytes() was called after a clear and a shorter write, with a
\* byte written before the clear still in the store past length.
C11_Witness ==
    /\ last.op = "bytes" /\ cleared >= 2
    /\ written = <<255>> /\ snap.taken = <<255>>
    /\ buf_value[2] = 2

\* the values c, 2c, 4c, ... (0, 1, 2, 4, ... for c = 0) up to n doublings
Doublings(c, n) == {c} \cup {(IF c = 0 THEN 1 ELSE c) * 2 ^ k : k \in 0..n}

\* the first of them that is at least n
FirstAtLeast(c, n) ==
    CHOOSE x \in Doublings(c, n) :
        x >= n /\ \A y \in Doublings(c, n) : y >= n => x <= y

\* new DynamicBuffer(c) as a record of the fields
NewDynamicBuffer(c) ==
    [value |-> [j \in 1..c |-> 0], capacity |-> c, length |-> 0, store |-> 0]

\* C12: write(chunk) keeps capacity and the backing store when
\* length + chunk.length <= capacity; otherwise the capacity becomes the first
\* of c, 2c, 4c, ... (0 stepping to 1) that is at least length + chunk.length,
\* c being the capacity before.  A buffer of capacity 0 has capacity 128
\* after writing 1 and then 100 bytes, and length 128 with capacity 128 after
\* 27 more.
C12_GrowthPolicy ==
    /\ last.op = "write" =>
         IF last.length + last.n <= last.capacity
         THEN capacity = last.capacity /\ store = last.store
         ELSE capacity = FirstAtLeast(last.capacity, last.length + last.n)
    /\ LET b1 == DynamicBuffer_write_outcome(NewDynamicBuffer(0), [j \in 1..1 |-> 1])
           b2 == DynamicBuffer_write_outcome(b1, [j \in 1..100 |-> 2])
           b3 == DynamicBuffer_write_outcome(b2, [j \in 1..27 |-> 3])
       IN /\ b2.length = 101 /\ b2.capacity = 128
          /\ b3.length = 128 /\ b3.capacity = 128 /\ b3.store = b2.store

\* C12 witness: a write of three bytes or more on an empty buffer of capacity
\* 0 took the capacity through 1 and 2 to 4.
C12_Witness ==
    /\ last.op = "write" /\ last.capacity = 0 /\ last.n >= 3
    /\ capacity = 4 /\ store # last.store

\* C13: the array bytes() returned keeps its contents under every later
\* write, writeByte and clear, in-place writes into the same store after a
\* clear included; and a store into that array changes nothing of what bytes()
\* and readInto return afterwards.
C13_SnapshotIsACopy ==
    /\ (snap.called /\ ~snap.mutated) => snap.result = snap.taken
    /\ snap.called =>
         /\ Content = written
         /\ DynamicBuffer_readInto_outcome([j \in 1..length |-> 0]).target = written

\* C13 witness: after bytes() the buffer was cleared and written in place, in
\* the store the snapshot was taken from, over the bytes the snapshot holds.
C13_Witness ==
    /\ snap.called /\ ~snap.mutated /\ snap.at = store
    /\ cleared >= 0 /\ Appended /\ last.store = store
    /\ Len(snap.taken) >= 1
    /\ buf_value[1] # snap.taken[1]

\* C14: readInto(target) fails when target is shorter than length and leaves
\* target and buffer as they were; otherwise target[0 .. length-1] is the
\* buffer's content, the rest of target is as before, and length, capacity and
\* the buffer's content are unchanged.
C14_ReadInto ==
    last.op = "readInto" =>
      /\ rd.called
      /\ capacity = last.capacity /\ length = last.length /\ store = last.store
      /\ Content = written
      /\ IF Len(rd.before) < length
         THEN rd.err # "none" /\ rd.after = rd.before
         ELSE /\ rd.err = "none"
              /\ Len(rd.after) = Len(rd.before)
              /\ SubSeq(rd.after, 1, length) = Content
              /\ \A j \in (length + 1)..Len(rd.before) : rd.after[j] = rd.before[j]

\* C14 witness: readInto filled the front of a longer target from a buffer
\* whose store is longer than its content.
C14_Witness ==
    /\ last.op = "readInto" /\ rd.err = "none"
    /\ length >= 1 /\ length < capacity /\ Len(rd.before) > length
    /\ rd.after # rd.before

\* C17: capacity never decreases; clear sets length to 0 and keeps capacity;
\* and the writes after a clear keep capacity as long as their total size is
\* at most the capacity held at the clear.
C17_CapacityIsKept ==
    /\ last.op # "none" => capacity >= last.capacity
    /\ last.op = "clear" => length = 0 /\ capacity = last.capacity
    /\ (cleared >= 0 /\ Len(written) <= cleared) => capacity = cleared

\* C17 witness: after a clear of a buffer that had grown, writes filled the
\* capacity held at the clear.
C17_Witness ==
    /\ cleared >= 2 /\ store >= 1 /\ Appended
    /\ Len(written) = cleared /\ capacity = cleared

\* C18: writeByte(b) and write([b]) lead from every reachable buffer to the
\* same length, capacity and content, and the one doubling of writeByte leaves
\* room for the byte.
C18_WriteByteIsWrite ==
    \A b \in 0..255 :
        LET one  == DynamicBuffer_writeByte_outcome(this, b)
            many == DynamicBuffer_write_outcome(this, <<b>>)
        IN /\ one.length = many.length
           /\ one.capacity = many.capacity
           /\ SubSeq(one.value, 1, one.length) = SubSeq(many.value, 1, many.length)
           /\ one.length <= one.capacity
           /\ one.value[one.length] = b

\* C18 witness: writeByte was called on a full buffer and doubled its capacity.
C18_Witness ==
    /\ last.op = "writeByte" /\ last.length = last.capacity /\ last.capacity >= 2
    /\ capacity = 2 * last.capacity /\ length = last.length + 1

\* C20: in every state reached from new DynamicBuffer(c), c >= 0, length is
\* between 0 and capacity and the backing store has capacity bytes, so the
\* in-place write of a chunk with length + chunk.length <= capacity stays
\* inside the store.
C20_LengthWithinCapacity ==
    /\ 0 <= length /\ length <= capacity
    /\ Len(buf_value) = capacity
    /\ \A chunk \in Chunks :
         length + Len(chunk) <= capacity =>
           SetAt(buf_value, chunk, length).err = "none"

\* C20 witness: an in-place write filled the store to its last byte.
C20_Witness ==
    /\ last.op = "write" /\ last.n >= 2 /\ last.store = store
    /\ cleared >= 0 /\ length = capacity

----------------------------------------------------------------------------
(* Properties of compareBytes and concatenateBytes.                        *)

\* C15: compareBytes(a, b) is true exactly when a and b have the same length
\* and the same byte at every index; so compareBytes(a, a) is true, arrays of
\* different lengths compare false, and compareBytes(a, b) is
\* compareBytes(b, a).
C15_ComparesLengthAndBytes ==
    util.fn = "compareBytes" =>
      /\ util.equal <=> (/\ Len(util.a) = Len(util.b)
                         /\ \A i \in 1..Len(util.a) : util.a[i] = util.b[i])
      /\ compareBytes(util.a, util.a)
      /\ Len(util.a) # Len(util.b) => ~util.equal
      /\ util.equal <=> compareBytes(util.b, util.a)

\* C15 witness: an array was compared with a longer array it is a prefix of,
\* and the result was false.
C15_Witness ==
    /\ util.fn = "compareBytes" /\ ~util.equal
    /\ util.a = <<1, 255>> /\ util.b = <<1, 255, 1>>

\* C16: concatenateBytes(a, b) returns an array of a.length + b.length bytes
\* holding the bytes of a and then the bytes of b, also for an empty a or b,
\* and a and b are left as they were.
C16_ConcatenatesInOrder ==
    util.fn = "concatenateBytes" =>
      /\ Len(util.result) = Len(util.a) + Len(util.b)
      /\ \A i \in 1..Len(util.a) : util.result[i] = util.a[i]
      /\ \A j \in 1..Len(util.b) : util.result[Len(util.a) + j] = util.b[j]
      /\ util.a_after = util.a /\ util.b_after = util.b

\* C16 witness: two arrays of different bytes were concatenated.
C16_Witness ==
    /\ util.fn = "concatenateBytes"
    /\ util.a = <<1, 255>> /\ util.b = <<255, 255, 1>>
    /\ util.result = <<1, 255, 255, 255, 1>>

----------------------------------------------------------------------------
(* Leading zero bytes.                                                     *)

\* b without its leading zero bytes, keeping its last byte
RECURSIVE StripLeadingZeros(_)
StripLeadingZeros(b) ==
    IF Len(b) > 1 /\ b[1] = 0 THEN StripLeadingZeros(Tail(b)) ELSE b

\* C19: bigIntFromBytes of k zero bytes followed by a non-empty array b is,
\* without error, the integer bigIntFromBytes(b); so
\* bigIntBytes(bigIntFromBytes(b)) is b without its leading zero bytes, one
\* byte being kept when b is all zeros.
C19_LeadingZerosIgnored ==
    /\ (dec.called /\ Len(dec.bytes) >= 1) =>
         /\ dec.err = "none"
         /\ \A k \in 0..MaxZeros :
              bigIntFromBytes([j \in 1..k |-> 0] \o dec.bytes) = Returned(dec.val)
    /\ (dec.called /\ dec.err = "none" /\ enc.called /\ enc.value = dec.val) =>
         enc.bytes = StripLeadingZeros(dec.bytes)

\* C19 witness: an array with a leading zero byte was decoded and the integer
\* encoded again.
C19_Witness ==
    /\ dec.called /\ dec.bytes = <<0, 1, 255>>
    /\ enc.called /\ enc.value = dec.val
    /\ enc.bytes = <<1, 255>>

====
